---------------------------- MODULE Spec2Model ----------------------------
(***************************************************************************)
(* Model of pymap3d.los.lookAtSpheroid (src/src/pymap3d/los.py).           *)
(*                                                                         *)
(* One call of lookAtSpheroid is a run of the state machine: Init is the   *)
(* function entry with the arguments bound and the module's import         *)
(* (lines 6-9) resolved; every action is one statement group of the body,  *)
(* including the exception edges of the two try blocks.                    *)
(*                                                                         *)
(* Arithmetic is exact.  Lengths are integers.  Angles are points          *)
(* <<cos, sin>> of the circle of radius Scale with integer coordinates     *)
(* (the quarter turns and the angles of the 3-4-5 triangle), so that every *)
(* sine and cosine is a rational n/Scale.  Direction components are        *)
(* carried as numerators over Scale.  A slant range is an element          *)
(* (num + coef*sqrt(rad))/den of the quadratic field, or NaN.              *)
(***************************************************************************)
EXTENDS Integers, Sequences, FiniteSets

(***************************************************************************)
(* Bounds of the explored inputs.                                          *)
(***************************************************************************)
MaxAlt == 2
MaxLen == 2

Pythagorean == <<3, 4, 5>>
Scale == Pythagorean[3]

(***************************************************************************)
(* Integer helpers.                                                        *)
(***************************************************************************)
Abs(n) == IF n < 0 THEN 0 - n ELSE n
Sgn(n) == IF n < 0 THEN -1 ELSE IF n > 0 THEN 1 ELSE 0

\* floor of the square root of n >= 0
Isqrt(n) == CHOOSE k \in 0..(n + 1) : k * k <= n /\ (k + 1) * (k + 1) > n

IsSquare(n) == n >= 0 /\ Isqrt(n) * Isqrt(n) = n

(***************************************************************************)
(* Floating point values of the model: NaN or (num + coef*sqrt(rad))/den   *)
(* with den > 0 and rad >= 0.                                              *)
(***************************************************************************)
NaN == [nan |-> TRUE, num |-> 0, coef |-> 0, rad |-> 0, den |-> 1]
Surd(n, c, r, m) == [nan |-> FALSE, num |-> n, coef |-> c, rad |-> r, den |-> m]
Num(n) == Surd(n, 0, 0, 1)

\* sign of n + c*sqrt(r), exactly
SignSurd(n, c, r) ==
    IF c = 0 \/ r = 0 THEN Sgn(n)
    ELSE IF n = 0 THEN Sgn(c)
    ELSE IF Sgn(n) = Sgn(c) THEN Sgn(n)
    ELSE IF n * n > c * c * r THEN Sgn(n)
    ELSE IF n * n < c * c * r THEN Sgn(c)
    ELSE 0

\* sign of a non-NaN value
Sign(f) == SignSurd(f.num, f.coef, f.rad)

\* f < 0 as IEEE-754 evaluates it: every comparison with NaN is false
Negative(f) == ~f.nan /\ Sign(f) < 0

\* f = n for an integer n
EqualsInt(f, n) == ~f.nan /\ SignSurd(f.num - n * f.den, f.coef, f.rad) = 0

(***************************************************************************)
(* Angles.                                                                 *)
(***************************************************************************)
Cos(t) == t[1]
Sin(t) == t[2]
Deg0 == <<Scale, 0>>
Deg90 == <<0, Scale>>
Deg180 == <<0 - Scale, 0>>
Deg270 == <<0, 0 - Scale>>
QuarterTurns == {Deg0, Deg90, Deg180, Deg270}
\* the angles of [0, 180] degrees with rational sine and cosine over Scale
HalfTurn == {t \in (0 - Scale..Scale) \X (0..Scale) : t[1] * t[1] + t[2] * t[2] = Scale * Scale}
\* t - 90 degrees (t - pi/2 radians)
MinusQuarter(t) == <<Sin(t), 0 - Cos(t)>>

(***************************************************************************)
(* Python values: a plain scalar, or a numpy array with its shape and its  *)
(* elements in row-major order.                                            *)
(***************************************************************************)
Scalar(e) == [arr |-> FALSE, shape |-> <<>>, data |-> <<e>>]
Array(s, es) == [arr |-> TRUE, shape |-> s, data |-> es]
Unset == [arr |-> FALSE, shape |-> <<>>, data |-> <<>>]

RECURSIVE Size(_)
Size(s) == IF s = <<>> THEN 1 ELSE s[1] * Size(Tail(s))

Max(m, n) == IF m >= n THEN m ELSE n

\* a shape padded on the left with ones to rank n
Pad(s, n) == [i \in 1..n |-> IF i <= n - Len(s) THEN 1 ELSE s[i - (n - Len(s))]]

\* numpy's broadcast of two compatible shapes
Broadcast(s, t) ==
    LET n == Max(Len(s), Len(t))
    IN  [i \in 1..n |-> IF Pad(s, n)[i] = 1 THEN Pad(t, n)[i] ELSE Pad(s, n)[i]]

\* element i of v broadcast to a shape of at least i elements
At(v, i) == IF Len(v.data) = 1 THEN v.data[1] ELSE v.data[i]


RECURSIVE BroadcastAll(_)
BroadcastAll(vs) ==
    IF Len(vs) = 1 THEN vs[1].shape
    ELSE Broadcast(vs[1].shape, BroadcastAll(Tail(vs)))

\* the element indices of an elementwise expression on the operands vs
Elements(vs) == 1..Size(BroadcastAll(vs))

\* the value of an elementwise expression on the operands vs with the
\* elements es: an array as soon as one operand is, of the broadcast shape
Elementwise(vs, es) ==
    [arr |-> \E k \in 1..Len(vs) : vs[k].arr, shape |-> BroadcastAll(vs), data |-> es]

\* numpy.atleast_1d
AtLeast1d(v) == IF v.shape = <<>> THEN Array(<<1>>, v.data) ELSE Array(v.shape, v.data)

\* ndarray.squeeze: the dimensions of length one removed
Squeeze(s) == SelectSeq(s, LAMBDA n : n # 1)

\* a.squeeze()[()]: indexing a 0-d array with () gives its scalar, indexing
\* any other array with () gives the array
SqueezeItem(v) ==
    IF Squeeze(v.shape) = <<>> THEN Scalar(v.data[1])
    ELSE Array(Squeeze(v.shape), v.data)

(***************************************************************************)
(* Ellipsoids.  Lengths are in units in which the reference ellipsoid has  *)
(* the semi-axes below; the supplied ellipsoids are chosen so that the     *)
(* radii met on the latitude grid are integers.                            *)
(***************************************************************************)
Ell(a, b) == [semimajor_axis |-> a, semiminor_axis |-> b]
None == Ell(0, 0)
\* Ellipsoid(): the default reference ellipsoid
DefaultEllipsoid == Ell(2, 1)
Ellipsoids == {Ell(2, 1), Ell(1, 1), Ell(2, 2)}

(***************************************************************************)
(* The collaborators, per element.  Products of two numerators over Scale  *)
(* are exact on the grid: azimuth, latitude and longitude are quarter      *)
(* turns, so one factor of every product is a multiple of Scale.           *)
(***************************************************************************)
FixMul(m, n) == (m * n) \div Scale

\* aer2enu(az, el, srange): east, north, up
Aer2Enu(azim, elev, srange) ==
    LET r == srange * Cos(elev)
    IN  <<FixMul(r, Sin(azim)), FixMul(r, Cos(azim)), srange * Sin(elev)>>

\* enu2uvw(east, north, up, lat0, lon0): the ENU vector in the ECEF frame
Enu2Uvw(enu, lat, lon) ==
    LET t == FixMul(Cos(lat), enu[3]) - FixMul(Sin(lat), enu[2])
        w == FixMul(Sin(lat), enu[3]) + FixMul(Cos(lat), enu[2])
        u == FixMul(Cos(lon), t) - FixMul(Sin(lon), enu[1])
        v == FixMul(Sin(lon), t) + FixMul(Cos(lon), enu[1])
    IN  <<u, v, w>>

\* geodetic2ecef(lat, lon, alt, ell): N is the radius of curvature in the
\* prime vertical, a^2 / sqrt(a^2 cos^2 lat + b^2 sin^2 lat)
Geodetic2Ecef(lat, lon, alt, e) ==
    LET a == e.semimajor_axis
        b == e.semiminor_axis
        N == (a * a * Scale) \div Isqrt(a * a * Cos(lat) * Cos(lat) + b * b * Sin(lat) * Sin(lat))
        x == ((N + alt) * Cos(lat) * Cos(lon)) \div (Scale * Scale)
        y == ((N + alt) * Cos(lat) * Sin(lon)) \div (Scale * Scale)
        z == ((((N * b * b) \div (a * a)) + alt) * Sin(lat)) \div Scale
    IN  <<x, y, z>>

\* an angle returned by ecef2geodetic: NaN, an angle of the grid, or some
\* other finite angle
AngNaN == [kind |-> "nan", ang |-> <<0, 0>>]
AngGrid(t) == [kind |-> "grid", ang |-> t]
AngOther == [kind |-> "other", ang |-> <<0, 0>>]

\* ecef2geodetic(x, y, z, ell): latitude and longitude of an ECEF point.
\* NaN coordinates give NaN angles; lon = atan2(y, x); the latitude is
\* +-90 degrees on the polar axis and 0 in the equatorial plane.
Ecef2Geodetic(pt, e) ==
    IF pt[1].nan \/ pt[2].nan \/ pt[3].nan THEN <<AngNaN, AngNaN>>
    ELSE
        LET sx == Sign(pt[1])
            sy == Sign(pt[2])
            sz == Sign(pt[3])
            lon == IF sy = 0 /\ sx >= 0 THEN AngGrid(Deg0)
                   ELSE IF sy = 0 THEN AngGrid(Deg180)
                   ELSE IF sx = 0 /\ sy > 0 THEN AngGrid(Deg90)
                   ELSE IF sx = 0 THEN AngGrid(Deg270)
                   ELSE AngOther
            lat == IF sx = 0 /\ sy = 0 /\ sz > 0 THEN AngGrid(Deg90)
                   ELSE IF sx = 0 /\ sy = 0 /\ sz < 0 THEN AngGrid(Deg270)
                   ELSE IF sz = 0 /\ (sx # 0 \/ sy # 0) THEN AngGrid(Deg0)
                   ELSE AngOther
        IN  <<lat, lon>>

(***************************************************************************)
(* The arithmetic of lookAtSpheroid, per element.                          *)
(***************************************************************************)
\* the guard with its bound off by one: an altitude of -1 passes
AltitudeInvalidBelowMinusOne(h) == h < -1

\* h0 < 0 (line 66)
AltitudeInvalid(h) == h < 0

\* bool() of a comparison result: numpy refuses it for more than one element
Ambiguous(v) == v.arr /\ Size(v.shape) > 1

\* a, b, c (lines 79-81)
AxisA(e) == e.semimajor_axis
AxisB(e) == e.semimajor_axis
AxisC(e) == e.semiminor_axis

\* el = tilt - 90.0 if deg else tilt - pi / 2 (line 83): a quarter turn
\* less in either unit
Elevation(t, dg) == MinusQuarter(t)

\* the ellipsoid argument of the calls of geodetic2ecef (line 87) and
\* ecef2geodetic (line 121): none is passed
EllOfGeodetic2Ecef(e) == None
EllOfEcef2Geodetic(e) == None

\* the collaborators' own default: ell=None means Ellipsoid()
EllOrDefault(e) == IF e = None THEN DefaultEllipsoid ELSE e

\* value (line 89); dir = <<u, v, w>> over Scale, pos = <<x, y, z>>
Value(a, b, c, dir, pos) ==
    0 - (a * a) * (b * b) * dir[3] * pos[3]
      - (a * a) * (c * c) * dir[2] * pos[2]
      - (b * b) * (c * c) * dir[1] * pos[1]

\* radical (lines 90-103), over Scale^2
Radical(a, b, c, dir, pos) ==
    LET u == dir[1]
        v == dir[2]
        w == dir[3]
        x == pos[1]
        y == pos[2]
        z == pos[3]
    IN    (a * a) * (b * b) * (w * w)
        + (a * a) * (c * c) * (v * v)
        - (a * a) * (v * v) * (z * z)
        + 2 * (a * a) * v * w * y * z
        - (a * a) * (w * w) * (y * y)
        + (b * b) * (c * c) * (u * u)
        - (b * b) * (u * u) * (z * z)
        + 2 * (b * b) * u * w * x * z
        - (b * b) * (w * w) * (x * x)
        - (c * c) * (u * u) * (y * y)
        + 2 * (c * c) * u * v * x * y
        - (c * c) * (v * v) * (x * x)

\* magnitude (line 105), over Scale^2
Magnitude(a, b, c, dir) ==
      (a * a) * (b * b) * (dir[3] * dir[3])
    + (a * a) * (c * c) * (dir[2] * dir[2])
    + (b * b) * (c * c) * (dir[1] * dir[1])

Coefficients(e, dir, pos) ==
    [value |-> Value(AxisA(e), AxisB(e), AxisC(e), dir, pos),
     radical |-> Radical(AxisA(e), AxisB(e), AxisC(e), dir, pos),
     magnitude |-> Magnitude(AxisA(e), AxisB(e), AxisC(e), dir)]

\* the sign in front of the square root of line 109
RootSign == -1

\* line 109 with the sign in front of the square root flipped: the far root
SlantRangeFarRoot(e, k) ==
    IF k.radical < 0 THEN NaN
    ELSE Surd(Scale * k.value,
              (0 - RootSign) * Scale * AxisA(e) * AxisB(e) * AxisC(e),
              k.radical, k.magnitude)

\* d = (value - a * b * c * sqrt(radical)) / magnitude (line 109).  With
\* value over Scale, radical and magnitude over Scale^2 the quotient is
\* Scale * (value - a*b*c*sqrt(radical)) / magnitude.  numpy's sqrt of a
\* negative number is NaN (math.sqrt raises instead: see Solve).
SlantRange(e, k) ==
    IF k.radical < 0 THEN NaN
    ELSE Surd(Scale * k.value,
              RootSign * Scale * AxisA(e) * AxisB(e) * AxisC(e),
              k.radical, k.magnitude)

\* d[radical < 0] = nan (line 110)
MaskRadical(dd, k) == IF k.radical < 0 THEN NaN ELSE dd

\* d[d < 0] = nan (line 111)
MaskNegative(dd) == IF Negative(dd) THEN NaN ELSE dd

\* line 121 with a NaN range taken as no displacement at all
AlongNaNAsZero(x, dd, u) ==
    IF dd.nan THEN Num(x)
    ELSE Surd(x * dd.den * Scale + dd.num * u, dd.coef * u, dd.rad, dd.den * Scale)

\* x + d * u (line 121): u is dir/Scale, NaN is absorbing
Along(x, dd, u) ==
    IF dd.nan THEN NaN
    ELSE Surd(x * dd.den * Scale + dd.num * u, dd.coef * u, dd.rad, dd.den * Scale)

IntersectionPoint(pos, dd, dir) ==
    <<Along(pos[1], dd, dir[1]), Along(pos[2], dd, dir[2]), Along(pos[3], dd, dir[3])>>

(***************************************************************************)
(* State of one call.                                                      *)
(***************************************************************************)
VARIABLES
    numpy,   \* whether "from numpy import ..." (line 7) succeeded
    args,    \* the arguments of the call, as passed
    lat0,    \* the locals lat0, lon0, tilt (rebound by lines 73-75) and ell
    lon0,
    tilt,
    ell,
    pc,      \* the statement the call is at
    uvw,     \* u, v, w (line 86), over Scale
    xyz,     \* x, y, z (line 87)
    coef,    \* value, radical, magnitude (lines 89-105)
    d,       \* d; Unset while the name is unbound
    geo,     \* lat, lon (line 121)
    ret,     \* the returned tuple
    exc,     \* the exception the call ended with
    calls    \* the collaborators called so far, with the ellipsoid each used

vars == <<numpy, args, lat0, lon0, tilt, ell, pc, uvw, xyz, coef, d, geo, ret, exc, calls>>

NoReturn == [lat |-> Unset, lon |-> Unset, d |-> Unset]
NoException == [type |-> "", message |-> ""]
Called(fn, e) == [fn |-> fn, ell |-> e]

(***************************************************************************)
(* The explored calls.                                                     *)
(***************************************************************************)
Latitudes == {Deg0, Deg90, Deg270}
Altitudes == -1..MaxAlt
EllArgs == {None} \cup Ellipsoids

\* every argument a plain number
ScalarCalls ==
    {[lat0 |-> Scalar(la), lon0 |-> Scalar(lo), h0 |-> Scalar(h), az |-> Scalar(a),
      tilt |-> Scalar(t), ell |-> e, deg |-> g] :
        la \in Latitudes, lo \in QuarterTurns, h \in Altitudes, a \in QuarterTurns,
        t \in HalfTurn, e \in EllArgs, g \in BOOLEAN}

\* lat0, lon0, az and tilt arrays of one shape, h0 an array of that shape or
\* a plain number
Shapes == {<<n>> : n \in 1..MaxLen} \cup {<<1, n>> : n \in 1..MaxLen}
BatchAltitudes == {-1, 1}
BatchTilts == {Deg0, <<Pythagorean[1], Pythagorean[2]>>, Deg180}
Fill(s, e) == Array(s, [i \in 1..Size(s) |-> e])

BatchLatitudes == {Deg0, Deg90}
BatchCalls(s) ==
    {[lat0 |-> Fill(s, la), lon0 |-> Fill(s, Deg0), h0 |-> h, az |-> Fill(s, Deg0),
      tilt |-> Array(s, ts), ell |-> e, deg |-> g] :
        la \in BatchLatitudes,
        ts \in [1..Size(s) -> BatchTilts],
        h \in {Array(s, hs) : hs \in [1..Size(s) -> BatchAltitudes]}
              \cup {Scalar(x) : x \in BatchAltitudes},
        e \in EllArgs, g \in BOOLEAN}

ArrayCalls == UNION {BatchCalls(s) : s \in Shapes}

Init ==
    /\ numpy \in BOOLEAN
    /\ args \in ScalarCalls \cup (IF numpy THEN ArrayCalls ELSE {})
    /\ lat0 = args.lat0
    /\ lon0 = args.lon0
    /\ tilt = args.tilt
    /\ ell = args.ell
    /\ pc = "guard"
    /\ uvw = Unset
    /\ xyz = Unset
    /\ coef = Unset
    /\ d = Unset
    /\ geo = Unset
    /\ ret = NoReturn
    /\ exc = NoException
    /\ calls = <<>>

\* the message of line 67
AltitudeMessage == "Intersection calculation requires altitude  [0, Infinity)"

Raise(type, message) ==
    /\ pc' = "raised"
    /\ exc' = [type |-> type, message |-> message]

(***************************************************************************)
(* Lines 66-67: the altitude guard.  "if h0 < 0" takes the truth value of  *)
(* the comparison, which numpy refuses for an array of several elements.   *)
(***************************************************************************)
CheckAltitude ==
    /\ pc = "guard"
    /\ IF Ambiguous(args.h0)
       THEN Raise("ValueError", "truth value of an array is ambiguous")
       ELSE IF AltitudeInvalid(args.h0.data[1])
       THEN Raise("ValueError", AltitudeMessage)
       ELSE pc' = "ell" /\ exc' = exc
    /\ UNCHANGED <<numpy, args, lat0, lon0, tilt, ell, uvw, xyz, coef, d, geo, ret, calls>>

(***************************************************************************)
(* Lines 69-70: the default ellipsoid.                                     *)
(***************************************************************************)
BindEllipsoid ==
    /\ pc = "ell"
    /\ ell' = IF ell = None THEN DefaultEllipsoid ELSE ell
    /\ pc' = "atleast_1d"
    /\ UNCHANGED <<numpy, args, lat0, lon0, tilt, uvw, xyz, coef, d, geo, ret, exc, calls>>

(***************************************************************************)
(* Lines 72-77: atleast_1d of lat0, lon0 and tilt; without numpy the name  *)
(* is undefined and the NameError is passed over.                          *)
(***************************************************************************)
Promote ==
    /\ pc = "atleast_1d"
    /\ IF numpy
       THEN /\ lat0' = AtLeast1d(lat0)
            /\ lon0' = AtLeast1d(lon0)
            /\ tilt' = AtLeast1d(tilt)
       ELSE UNCHANGED <<lat0, lon0, tilt>>
    /\ pc' = "direction"
    /\ UNCHANGED <<numpy, args, ell, uvw, xyz, coef, d, geo, ret, exc, calls>>

(***************************************************************************)
(* Lines 83-86: the line of sight as a unit vector of the ECEF frame.      *)
(***************************************************************************)
ResolveDirection ==
    /\ pc = "direction"
    /\ uvw' = Elementwise(<<args.az, tilt, lat0, lon0>>,
                          [i \in Elements(<<args.az, tilt, lat0, lon0>>) |->
                              Enu2Uvw(Aer2Enu(At(args.az, i), Elevation(At(tilt, i), args.deg), 1),
                                      At(lat0, i), At(lon0, i))])
    /\ calls' = calls \o <<Called("aer2enu", None), Called("enu2uvw", None)>>
    /\ pc' = "observer"
    /\ UNCHANGED <<numpy, args, lat0, lon0, tilt, ell, xyz, coef, d, geo, ret, exc>>

(***************************************************************************)
(* Line 87: the observer in ECEF.                                          *)
(***************************************************************************)
ObserverEcef ==
    /\ pc = "observer"
    /\ xyz' = Elementwise(<<lat0, lon0, args.h0>>,
                          [i \in Elements(<<lat0, lon0, args.h0>>) |->
                              Geodetic2Ecef(At(lat0, i), At(lon0, i), At(args.h0, i),
                                            EllOrDefault(EllOfGeodetic2Ecef(ell)))])
    /\ calls' = Append(calls, Called("geodetic2ecef", EllOrDefault(EllOfGeodetic2Ecef(ell))))
    /\ pc' = "coefficients"
    /\ UNCHANGED <<numpy, args, lat0, lon0, tilt, ell, uvw, coef, d, geo, ret, exc>>

(***************************************************************************)
(* Lines 79-81 and 89-105: the coefficients of the quadratic.              *)
(***************************************************************************)
ComputeCoefficients ==
    /\ pc = "coefficients"
    /\ coef' = Elementwise(<<uvw, xyz>>,
                           [i \in Elements(<<uvw, xyz>>) |-> Coefficients(ell, At(uvw, i), At(xyz, i))])
    /\ pc' = "solve"
    /\ UNCHANGED <<numpy, args, lat0, lon0, tilt, ell, uvw, xyz, d, geo, ret, exc, calls>>

(***************************************************************************)
(* Lines 108-109: d.  Without numpy sqrt is math.sqrt, which raises        *)
(* ValueError for a negative argument before d is bound.                   *)
(***************************************************************************)
Solve ==
    /\ pc = "solve"
    /\ IF ~numpy /\ coef.data[1].radical < 0
       THEN pc' = "except_ValueError" /\ d' = d
       ELSE /\ d' = Elementwise(<<coef>>, [i \in Elements(<<coef>>) |-> SlantRange(ell, At(coef, i))])
            /\ pc' = "mask_radical"
    /\ UNCHANGED <<numpy, args, lat0, lon0, tilt, ell, uvw, xyz, coef, geo, ret, exc, calls>>

(***************************************************************************)
(* Line 110: d[radical < 0] = nan.  A float does not support item          *)
(* assignment: TypeError.                                                  *)
(***************************************************************************)
AssignRadicalMask ==
    /\ pc = "mask_radical"
    /\ IF d.arr
       THEN /\ d' = Elementwise(<<d, coef>>,
                                 [i \in Elements(<<d, coef>>) |-> MaskRadical(At(d, i), At(coef, i))])
            /\ pc' = "mask_negative"
       ELSE pc' = "except_TypeError" /\ d' = d
    /\ UNCHANGED <<numpy, args, lat0, lon0, tilt, ell, uvw, xyz, coef, geo, ret, exc, calls>>

(***************************************************************************)
(* Line 111: d[d < 0] = nan.                                               *)
(***************************************************************************)
AssignNegativeMask ==
    /\ pc = "mask_negative"
    /\ d' = Elementwise(<<d>>, [i \in Elements(<<d>>) |-> MaskNegative(At(d, i))])
    /\ pc' = "back_convert"
    /\ UNCHANGED <<numpy, args, lat0, lon0, tilt, ell, uvw, xyz, coef, geo, ret, exc, calls>>

(***************************************************************************)
(* Lines 112-116: the ValueError handler.  "if radical < 0: d = nan", then *)
(* "if d < 0: d = nan", which reads d: an unbound d is UnboundLocalError.  *)
(***************************************************************************)
\* the test of line 113 inverted
HandlerRadicalTestInverted(k) == k.radical > 0

\* radical < 0 (line 113)
HandlerRadicalTest(k) == k.radical < 0

\* d after line 114
AfterRadicalTest(dd, k) == IF HandlerRadicalTest(k) THEN Scalar(NaN) ELSE dd

HandleValueError ==
    /\ pc = "except_ValueError"
    /\ IF AfterRadicalTest(d, coef.data[1]) = Unset
       THEN Raise("UnboundLocalError", "local variable 'd' referenced before assignment") /\ d' = d
       ELSE /\ d' = Scalar(MaskNegative(AfterRadicalTest(d, coef.data[1]).data[1]))
            /\ pc' = "back_convert"
            /\ exc' = exc
    /\ UNCHANGED <<numpy, args, lat0, lon0, tilt, ell, uvw, xyz, coef, geo, ret, calls>>

(***************************************************************************)
(* Lines 117-118: the TypeError handler passes.                            *)
(***************************************************************************)
HandleTypeError ==
    /\ pc = "except_TypeError"
    /\ pc' = "back_convert"
    /\ UNCHANGED <<numpy, args, lat0, lon0, tilt, ell, uvw, xyz, coef, d, geo, ret, exc, calls>>

(***************************************************************************)
(* Line 121: the intersection point back to geodetic coordinates.          *)
(***************************************************************************)
BackConvert ==
    /\ pc = "back_convert"
    /\ geo' = Elementwise(<<xyz, d, uvw>>,
                          [i \in Elements(<<xyz, d, uvw>>) |->
                              Ecef2Geodetic(IntersectionPoint(At(xyz, i), At(d, i), At(uvw, i)),
                                            EllOrDefault(EllOfEcef2Geodetic(ell)))])
    /\ calls' = Append(calls, Called("ecef2geodetic", EllOrDefault(EllOfEcef2Geodetic(ell))))
    /\ pc' = "return"
    /\ UNCHANGED <<numpy, args, lat0, lon0, tilt, ell, uvw, xyz, coef, d, ret, exc>>

(***************************************************************************)
(* Lines 123-126: arrays are squeezed and unwrapped; plain floats have no  *)
(* squeeze (AttributeError) and are returned as they are.                  *)
(***************************************************************************)
Component(v, i) == [arr |-> v.arr, shape |-> v.shape,
                    data |-> [j \in 1..Len(v.data) |-> v.data[j][i]]]

Return ==
    /\ pc = "return"
    /\ ret' = IF geo.arr /\ d.arr
              THEN [lat |-> SqueezeItem(Component(geo, 1)),
                    lon |-> SqueezeItem(Component(geo, 2)),
                    d |-> SqueezeItem(d)]
              ELSE [lat |-> Component(geo, 1), lon |-> Component(geo, 2), d |-> d]
    /\ pc' = "done"
    /\ UNCHANGED <<numpy, args, lat0, lon0, tilt, ell, uvw, xyz, coef, d, geo, exc, calls>>

Next ==
    \/ CheckAltitude
    \/ BindEllipsoid
    \/ Promote
    \/ ResolveDirection
    \/ ObserverEcef
    \/ ComputeCoefficients
    \/ Solve
    \/ AssignRadicalMask
    \/ AssignNegativeMask
    \/ HandleValueError
    \/ HandleTypeError
    \/ BackConvert
    \/ Return

Spec == Init /\ [][Next]_vars

(***************************************************************************)
(* Vocabulary of the properties.                                           *)
(***************************************************************************)
Done == pc = "done"
Raised == pc = "raised"
Indices(v) == 1..Len(v.data)

\* the ellipsoid in effect: the supplied one, or the default when omitted
EllInEffect == IF args.ell = None THEN DefaultEllipsoid ELSE args.ell

\* every element of h0 is a valid altitude
AltitudesValid == \A i \in Indices(args.h0) : args.h0.data[i] >= 0

\* the call runs without numpy: every value is a plain float
FallbackPath == ~numpy

RECURSIVE Gcd(_, _)
Gcd(m, n) == IF n = 0 THEN Abs(m) ELSE Gcd(n, m % n)

\* f / n for an integer n > 0, in lowest terms
Over(f, n) ==
    LET g == Gcd(Gcd(Abs(f.num), Abs(f.coef)), f.den * n)
    IN  Surd(f.num \div g, f.coef \div g, f.rad, (f.den * n) \div g)

(***************************************************************************)
(* The ray-ellipsoid quadratic of an ellipsoid with the semi-axes          *)
(* (a, a, b) = (semimajor, semimajor, semiminor): the point pos + t*dir    *)
(* satisfies x^2/a^2 + y^2/a^2 + z^2/b^2 = 1 iff                           *)
(* QuadA*t^2 + QuadB*t + QuadC = 0 (the equation times a^4 b^2).           *)
(***************************************************************************)
QuadA(e, dir) ==
    LET a == e.semimajor_axis
        b == e.semiminor_axis
    IN  a * a * b * b * (dir[1] * dir[1] + dir[2] * dir[2]) + a * a * a * a * dir[3] * dir[3]

QuadB(e, dir, pos) ==
    LET a == e.semimajor_axis
        b == e.semiminor_axis
    IN  2 * (a * a * b * b * (dir[1] * pos[1] + dir[2] * pos[2]) + a * a * a * a * dir[3] * pos[3])

QuadC(e, pos) ==
    LET a == e.semimajor_axis
        b == e.semiminor_axis
    IN  a * a * b * b * (pos[1] * pos[1] + pos[2] * pos[2]) + a * a * a * a * pos[3] * pos[3]
        - a * a * a * a * b * b

\* qa*t^2 + qb*t + qc = 0 for t = (num + coef*sqrt(rad))/den
IsRoot(qa, qb, qc, t) ==
    LET rat == qa * (t.num * t.num + t.coef * t.coef * t.rad) + qb * t.num * t.den + qc * t.den * t.den
        irr == 2 * qa * t.num * t.coef + qb * t.coef * t.den
    IN  IF IsSquare(t.rad) THEN rat + irr * Isqrt(t.rad) = 0
        ELSE rat = 0 /\ irr = 0

\* t is not beyond the vertex of the parabola (qa > 0): of its two roots, t
\* can only be the smaller one
NotAfterVertex(qa, qb, t) ==
    SignSurd(2 * qa * t.num + qb * t.den, 2 * qa * t.coef, t.rad) <= 0

\* the slant range dd puts the point pos + dd*(dir/Scale) on the ellipsoid
\* e, at the first of the two crossings of the line
EntryPoint(e, dir, pos, dd) ==
    /\ IsRoot(QuadA(e, dir), QuadB(e, dir, pos), QuadC(e, pos), Over(dd, Scale))
    /\ NotAfterVertex(QuadA(e, dir), QuadB(e, dir, pos), Over(dd, Scale))

(***************************************************************************)
(* C1: every call with h0 >= 0 that returns, returns a slant range that is *)
(* NaN or >= 0, on the array path and on the scalar fallback path alike.   *)
(***************************************************************************)
C1_SlantRangeNaNOrNonNegative ==
    (Done /\ AltitudesValid) =>
        \A i \in Indices(ret.d) : ret.d.data[i].nan \/ Sign(ret.d.data[i]) >= 0

(***************************************************************************)
(* C2: a call with h0 < 0 fails with the invalid-altitude ValueError       *)
(* whatever the other arguments are, before any collaborator is called or  *)
(* any local is computed, and returns nothing.                             *)
(***************************************************************************)
C2_AltitudeGuard ==
    (~Ambiguous(args.h0) /\ args.h0.data[1] < 0) =>
        /\ pc \in {"guard", "raised"}
        /\ Raised => exc = [type |-> "ValueError", message |-> AltitudeMessage]
        /\ calls = <<>>
        /\ uvw = Unset /\ xyz = Unset /\ coef = Unset /\ d = Unset /\ geo = Unset
        /\ ret = NoReturn

C2_Witness ==
    /\ Raised
    /\ exc.message = AltitudeMessage
    /\ args.h0.data[1] < 0
    /\ args.ell # None
    /\ ~args.deg

(***************************************************************************)
(* C3: the ellipsoid in effect is the one used by the observer's           *)
(* geodetic-to-ECEF conversion, by the solver's axes (a, a, b) and by the  *)
(* ECEF-to-geodetic back-conversion.                                       *)
(***************************************************************************)
C3_OneEllipsoidThroughout ==
    Done =>
        /\ \A k \in 1..Len(calls) :
              calls[k].fn \in {"geodetic2ecef", "ecef2geodetic"} => calls[k].ell = EllInEffect
        /\ \A i \in Indices(xyz) :
              xyz.data[i] = Geodetic2Ecef(At(lat0, i), At(lon0, i), At(args.h0, i), EllInEffect)
        /\ AxisA(ell) = EllInEffect.semimajor_axis
        /\ AxisB(ell) = EllInEffect.semimajor_axis
        /\ AxisC(ell) = EllInEffect.semiminor_axis

(***************************************************************************)
(* C4: with lat0, lon0, h0, az and tilt arrays of N elements and every     *)
(* h0[i] >= 0 the call does not fail and returns N results, result i being *)
(* the result of the call on the i-th elements alone.                      *)
(***************************************************************************)
\* <<lat, lon, d>> of the call on plain numbers, numpy importable
ElementResult(e, la, lo, h, a, t, g) ==
    LET dir == Enu2Uvw(Aer2Enu(a, Elevation(t, g), 1), la, lo)
        pos == Geodetic2Ecef(la, lo, h, EllOrDefault(EllOfGeodetic2Ecef(e)))
        k == Coefficients(e, dir, pos)
        dd == MaskNegative(MaskRadical(SlantRange(e, k), k))
        ll == Ecef2Geodetic(IntersectionPoint(pos, dd, dir), EllOrDefault(EllOfEcef2Geodetic(e)))
    IN  <<ll[1], ll[2], dd>>

AllArrays == args.lat0.arr /\ args.lon0.arr /\ args.h0.arr /\ args.az.arr /\ args.tilt.arr

C4_ArrayOfN ==
    (AllArrays /\ AltitudesValid) =>
        /\ ~Raised
        /\ Done =>
            /\ Len(ret.d.data) = Len(args.h0.data)
            /\ Len(ret.lat.data) = Len(args.h0.data)
            /\ Len(ret.lon.data) = Len(args.h0.data)
            /\ \A i \in Indices(args.h0) :
                  <<ret.lat.data[i], ret.lon.data[i], ret.d.data[i]>> =
                      ElementResult(EllInEffect, args.lat0.data[i], args.lon0.data[i],
                                    args.h0.data[i], args.az.data[i], args.tilt.data[i], args.deg)

(***************************************************************************)
(* C5: each output has exactly the broadcast shape of the inputs: plain    *)
(* numbers for plain numbers, arrays of shape S for arrays of shape S,     *)
(* also when S is (1,) or has dimensions of length one.                    *)
(***************************************************************************)
InputValues == <<args.lat0, args.lon0, args.h0, args.az, args.tilt>>
InputIsArray == \E k \in 1..Len(InputValues) : InputValues[k].arr

SameShapeAsInputs(v) == v.arr = InputIsArray /\ v.shape = BroadcastAll(InputValues)

C5_OutputShapeIsInputShape ==
    Done => SameShapeAsInputs(ret.lat) /\ SameShapeAsInputs(ret.lon) /\ SameShapeAsInputs(ret.d)

(***************************************************************************)
(* C6: from latitude 0, longitude 0 and altitude H > 0, looking straight   *)
(* down (tilt 0) at any azimuth, the call returns latitude 0, longitude 0  *)
(* and slant range H, on the ellipsoid in effect.                          *)
(***************************************************************************)
NadirFromEquator(i) ==
    /\ At(args.lat0, i) = Deg0
    /\ At(args.lon0, i) = Deg0
    /\ At(args.h0, i) > 0
    /\ At(args.tilt, i) = Deg0

C6_Nadir ==
    Done =>
        \A i \in Indices(ret.d) :
            NadirFromEquator(i) =>
                /\ ret.lat.data[i] = AngGrid(Deg0)
                /\ ret.lon.data[i] = AngGrid(Deg0)
                /\ EqualsInt(ret.d.data[i], At(args.h0, i))

(***************************************************************************)
(* C7: an element whose returned slant range is NaN has NaN latitude and   *)
(* NaN longitude; put the other way round, a latitude or longitude that is *)
(* not NaN comes only with a slant range that is not NaN.                  *)
(***************************************************************************)
C7_SentinelTogether ==
    Done =>
        \A i \in Indices(ret.d) :
            ret.d.data[i].nan => (ret.lat.data[i] = AngNaN /\ ret.lon.data[i] = AngNaN)

C7_Witness ==
    /\ Done
    /\ \E i \in Indices(ret.d) :
          ret.d.data[i].nan /\ ret.lat.data[i] = AngNaN /\ ret.lon.data[i] = AngNaN
    /\ \E i \in Indices(ret.d) :
          ~ret.d.data[i].nan /\ ret.lat.data[i] # AngNaN /\ ret.lon.data[i] # AngNaN

(***************************************************************************)
(* C8: for h0 >= 0, whenever the solver leaves a slant range d that is not *)
(* NaN, the point (x + d*u, y + d*v, z + d*w) is on the ellipsoid of       *)
(* semi-axes (semimajor, semimajor, semiminor) and d is the smaller of the *)
(* two roots of the ray-ellipsoid quadratic.                               *)
(***************************************************************************)
Solved == pc \in {"back_convert", "return", "done"}

C8_ForwardRoot ==
    (Solved /\ AltitudesValid) =>
        \A i \in Indices(d) :
            ~d.data[i].nan => EntryPoint(EllInEffect, At(uvw, i), At(xyz, i), d.data[i])

C8_Witness ==
    /\ Done
    /\ args.ell \notin {None, DefaultEllipsoid}
    /\ \E i \in Indices(d) :
          /\ ~ret.d.data[i].nan
          /\ At(coef, i).radical > 0
          /\ ~IsSquare(At(coef, i).radical)
          /\ EntryPoint(EllInEffect, At(uvw, i), At(xyz, i), ret.d.data[i])

(***************************************************************************)
(* C9: with h0 > 0 and a tilt from 90 degrees (horizontal) to 180 degrees  *)
(* (straight up), at any latitude, longitude and azimuth, latitude,        *)
(* longitude and slant range are all returned NaN.                         *)
(***************************************************************************)
HorizontalOrAbove(i) == At(args.h0, i) > 0 /\ Cos(At(args.tilt, i)) <= 0

C9_GrazingOrAway ==
    Done =>
        \A i \in Indices(ret.d) :
            HorizontalOrAbove(i) =>
                /\ ret.d.data[i].nan
                /\ ret.lat.data[i] = AngNaN
                /\ ret.lon.data[i] = AngNaN

(***************************************************************************)
(* C10: an element with radical < 0 gets a NaN slant range and the call    *)
(* does not raise, on the array path and on the scalar fallback path       *)
(* (where sqrt raises ValueError and the handler catches it).              *)
(***************************************************************************)
LineMisses(i) == At(coef, i).radical < 0

C10_NoRealRoot ==
    (coef # Unset /\ \E i \in Indices(coef) : LineMisses(i)) =>
        /\ ~Raised
        /\ Done => \A i \in Indices(ret.d) : LineMisses(i) => ret.d.data[i].nan

C10_Witness ==
    /\ Done
    /\ FallbackPath
    /\ LineMisses(1)
    /\ ret.d.data[1].nan

=============================================================================
